---- MODULE Spec2Model ----
(***************************************************************************)
(* react-declare-form: the Form coordinator (form.tsx), its four stores    *)
(* (use-state, use-error, use-loading, use-required), the mounting gate    *)
(* (use-mounting) and the field binding (context.tsx), as a state machine. *)
(*                                                                         *)
(* React's part is modelled as the library uses it: a dispatch applies the *)
(* reducer to the store; closures handed to the fields read the state of   *)
(* the last render (rendered); a render compares every useEffect's         *)
(* dependency list with the one of the render before and queues the        *)
(* effects whose dependencies changed; queued effects run, in commit       *)
(* order, before the next dispatch of an event handler and before the next *)
(* render.                                                                 *)
(***************************************************************************)
EXTENDS Naturals, Sequences, FiniteSets, TLC

\* ------------------------------ values ---------------------------------
\* the StateKeys of the mounted fields, in the order the form renders them
KeyOrder == <<"a", "b">>
Keys == {KeyOrder[i] : i \in DOMAIN KeyOrder}

\* JS undefined; "" is the empty string (defined, but falsy)
Undefined == "undefined"
\* !!v
Truthy(v) == v \notin {Undefined, ""}

\* what a field may pass to setFormState(state, meta)
StateInputs == {Undefined, "", "x"}
MetaInputs == {Undefined, "m"}

\* ---------------------------- JS objects -------------------------------
\* obj[k], undefined when k is no own key
Get(obj, k) == IF k \in DOMAIN obj THEN obj[k] ELSE Undefined
\* { ...obj, [k]: v }
Put(obj, k, v) == [x \in (DOMAIN obj) \cup {k} |-> IF x = k THEN v ELSE obj[x]]
\* Object.keys(obj).reduce(copy every key but k)
Without(obj, k) == [x \in (DOMAIN obj) \ {k} |-> obj[x]]

\* --------------------------- use-state.ts ------------------------------
SET_INITIAL_STATE == "FORM_STATE.INITIAL_STATE.SET"
SET_INITIAL_META == "FORM_STATE.INITIAL_META.SET"
SET_FORM_STATE == "FORM_STATE.STATE.SET"
SET_FORM_META == "FORM_STATE.META.SET"
REMOVE_FORM_STATE == "FORM_STATE.STATE.REMOVE"
REMOVE_FORM_META == "FORM_STATE.META.REMOVE"

\* useFormState's initialState
InitialFormState ==
    [formState |-> << >>, displayState |-> << >>, formMeta |-> << >>,
     displayMeta |-> << >>, stateChanged |-> FALSE]

\* variant: the seed is written as an edit would be
ReduceSetInitialStateAsEdit(state, action) ==
    [state EXCEPT !.formState = Put(@, action.stateKey, action.state),
                  !.displayState = Put(@, action.stateKey, action.state),
                  !.stateChanged = FALSE]

ReduceSetInitialState(state, action) ==
    [state EXCEPT !.displayState = Put(@, action.stateKey, action.state),
                  !.stateChanged = FALSE]

ReduceSetInitialMeta(state, action) ==
    [state EXCEPT !.displayMeta = Put(@, action.stateKey, action.meta),
                  !.stateChanged = FALSE]

ReduceSetFormState(state, action) ==
    [state EXCEPT !.formState = Put(@, action.stateKey, action.state),
                  !.displayState = Put(@, action.stateKey, action.state),
                  !.stateChanged = TRUE]

\* variant: the meta is written to the display mapping only
ReduceSetFormMetaDisplayOnly(state, action) ==
    [state EXCEPT !.displayMeta = Put(@, action.stateKey, action.meta),
                  !.stateChanged = TRUE]

ReduceSetFormMeta(state, action) ==
    [state EXCEPT !.formMeta = Put(@, action.stateKey, action.meta),
                  !.displayMeta = Put(@, action.stateKey, action.meta),
                  !.stateChanged = TRUE]

\* both new mappings are rebuilt from displayState
ReduceRemoveFormState(state, action) ==
    [state EXCEPT !.formState = Without(state.displayState, action.stateKey),
                  !.displayState = Without(state.displayState, action.stateKey),
                  !.stateChanged = TRUE]

\* both new mappings are rebuilt from displayMeta
ReduceRemoveFormMeta(state, action) ==
    [state EXCEPT !.formMeta = Without(state.displayMeta, action.stateKey),
                  !.displayMeta = Without(state.displayMeta, action.stateKey),
                  !.stateChanged = TRUE]

stateReducer(state, action) ==
    CASE action.type = SET_INITIAL_STATE -> ReduceSetInitialState(state, action)
      [] action.type = SET_INITIAL_META -> ReduceSetInitialMeta(state, action)
      [] action.type = SET_FORM_STATE -> ReduceSetFormState(state, action)
      [] action.type = SET_FORM_META -> ReduceSetFormMeta(state, action)
      [] action.type = REMOVE_FORM_STATE -> ReduceRemoveFormState(state, action)
      [] action.type = REMOVE_FORM_META -> ReduceRemoveFormMeta(state, action)
      [] OTHER -> state

\* variant: state and meta are written together whenever either is given
setFormStateJoint(fs, stateKey, state, meta) ==
    IF Truthy(state) \/ Truthy(meta)
    THEN stateReducer(stateReducer(fs, [type |-> SET_FORM_STATE, stateKey |-> stateKey,
                                        state |-> state]),
                      [type |-> SET_FORM_META, stateKey |-> stateKey, meta |-> meta])
    ELSE fs

\* setFormState(stateKey, state, meta): the store after its dispatches
setFormState(fs, stateKey, state, meta) ==
    LET s1 == IF Truthy(state)
              THEN stateReducer(fs, [type |-> SET_FORM_STATE, stateKey |-> stateKey,
                                     state |-> state])
              ELSE fs
    IN  IF Truthy(meta)
        THEN stateReducer(s1, [type |-> SET_FORM_META, stateKey |-> stateKey,
                               meta |-> meta])
        ELSE s1

\* variant: nothing is dispatched for a key the store does not hold
removeFormStateIfPresent(fs, stateKey) ==
    IF stateKey \in DOMAIN fs.displayState \cup DOMAIN fs.displayMeta
    THEN stateReducer(stateReducer(fs, [type |-> REMOVE_FORM_STATE,
                                        stateKey |-> stateKey]),
                      [type |-> REMOVE_FORM_META, stateKey |-> stateKey])
    ELSE fs

\* removeFormState(stateKey): the store after its two dispatches
removeFormState(fs, stateKey) ==
    stateReducer(stateReducer(fs, [type |-> REMOVE_FORM_STATE, stateKey |-> stateKey]),
                 [type |-> REMOVE_FORM_META, stateKey |-> stateKey])

\* the setter setInitialState hands to its callback
seedSetter(fs, stateKey, state, meta) ==
    LET s1 == IF Truthy(state)
              THEN stateReducer(fs, [type |-> SET_INITIAL_STATE, stateKey |-> stateKey,
                                     state |-> state])
              ELSE fs
    IN  IF Truthy(meta)
        THEN stateReducer(s1, [type |-> SET_INITIAL_META, stateKey |-> stateKey,
                               meta |-> meta])
        ELSE s1

getComponentState(fs, stateKey) == Get(fs.displayState, stateKey)
getComponentMeta(fs, stateKey) == Get(fs.displayMeta, stateKey)

\* the dependency list of setInitialState's effect: [formState.formState[stateKey]]
seedDeps(fs, stateKey) == Get(fs.formState, stateKey)

\* --------------------------- use-error.ts ------------------------------
ERROR_ADD == "FORM_ERRORS.ADD"
ERROR_REMOVE == "FORM_ERRORS.REMOVE"

\* what a field may pass to setFormError: {} or {displayError: "bad", code: "E1"}
ErrorInputs == {<< >>, [displayError |-> <<"bad">>, code |-> <<"E1">>]}

\* variant: the new error is merged over the error already stored at the key
ReduceErrorAddMerging(state, action) ==
    Put(state, action.stateKey,
        action.error @@ (IF action.stateKey \in DOMAIN state
                         THEN state[action.stateKey] ELSE << >>)
                     @@ [displayError |-> <<action.stateKey, "Error">>])

\* { displayError: `${stateKey} Error`, ...action.error }
ReduceErrorAdd(state, action) ==
    Put(state, action.stateKey,
        action.error @@ [displayError |-> <<action.stateKey, "Error">>])

\* variant: removing one error clears the mapping
ReduceErrorRemoveAll(state, action) == << >>

ReduceErrorRemove(state, action) ==
    IF action.stateKey \in DOMAIN state THEN Without(state, action.stateKey) ELSE state

errorReducer(state, action) ==
    CASE action.type = ERROR_ADD -> ReduceErrorAdd(state, action)
      [] action.type = ERROR_REMOVE -> ReduceErrorRemove(state, action)
      [] OTHER -> state

\* formErrors[stateKey] as an option: {} is undefined, {e} the stored error e
getComponentError(errors, stateKey) ==
    IF stateKey \in DOMAIN errors THEN {errors[stateKey]} ELSE {}

\* -------------------------- use-loading.ts -----------------------------
LOADING_ADD == "FORM_LOADING.ADD"
LOADING_REMOVE == "FORM_LOADING.REMOVE"

\* variant: enabling a busy key switches it off
ReduceLoadingAddToggling(state, action) ==
    IF action.stateKey \in DOMAIN state
    THEN Without(state, action.stateKey)
    ELSE Put(state, action.stateKey, TRUE)

ReduceLoadingAdd(state, action) == Put(state, action.stateKey, TRUE)

ReduceLoadingRemove(state, action) ==
    IF action.stateKey \in DOMAIN state /\ state[action.stateKey]
    THEN Without(state, action.stateKey)
    ELSE state

loadingReducer(state, action) ==
    CASE action.type = LOADING_ADD -> ReduceLoadingAdd(state, action)
      [] action.type = LOADING_REMOVE -> ReduceLoadingRemove(state, action)
      [] OTHER -> state

\* Object.keys(loadingComponents).length > 0
formLoading(loading) == Cardinality(DOMAIN loading) > 0
\* !!loadingComponents[stateKey]
isLoading(loading, stateKey) == stateKey \in DOMAIN loading /\ loading[stateKey]

\* -------------------------- use-required.ts ----------------------------
REQUIRED_ADD == "FORM_REQUIRED.ADD"

\* isRequired callbacks: the default (state) => !state, and a custom
\* (state, error) => !!error; anything else is no function
NotState == "(state) => !state"
HasError == "(state, error) => !!error"
IsFunction(f) == f \in {NotState, HasError}

\* f(state, error); error is the option getComponentError returns
CallIsRequired(f, state, error) ==
    CASE f = NotState -> ~Truthy(state)
      [] f = HasError -> error # {}

\* { isRequired: (state) => !state, displayMessage: ..., ...action.required }
ReduceRequiredAdd(state, action) ==
    Put(state, action.stateKey,
        action.required @@
            [isRequired |-> NotState,
             displayMessage |-> <<action.stateKey, "Missing and Required">>])

\* variant: the handler is a dependency of the setRequired effect
requiredDepsWithHandler(stateKey, required) == <<stateKey, required>>

\* the dependency list of the effect setRequired declares: [stateKey]
requiredDeps(stateKey, required) == <<stateKey>>

requiredReducer(state, action) ==
    CASE action.type = REQUIRED_ADD -> ReduceRequiredAdd(state, action)
      [] OTHER -> state

\* Object.keys(obj): the keys in insertion order, which is the order the fields
\* were rendered in (every store is filled field by field)
ObjectKeys(obj) == SelectSeq(KeyOrder, LAMBDA k : k \in DOMAIN obj)

\* calling required.isRequired raises a TypeError when it is no function
RequiredThrows(required, stateKey) ==
    stateKey \in DOMAIN required /\ ~IsFunction(required[stateKey].isRequired)
getFormRequiredThrows(required) == \E k \in DOMAIN required : RequiredThrows(required, k)

\* getFormRequired(), with getComponentState / getComponentError of the same render
getFormRequired(required, fs, errors) ==
    [k \in DOMAIN required |->
        [displayMessage |-> required[k].displayMessage,
         isMissing |-> CallIsRequired(required[k].isRequired,
                                      getComponentState(fs, k),
                                      getComponentError(errors, k))]]

\* the forEach of anyMissing over the values, taken in the order keys
RECURSIVE anyMissingLoop(_, _, _)
anyMissingLoop(result, keys, missing) ==
    IF keys = << >> THEN missing
    ELSE anyMissingLoop(result, Tail(keys),
                        IF result[Head(keys)].isMissing THEN TRUE ELSE missing)

\* variant: only the first registered handler is consulted
anyMissingFirstOnly(required, fs, errors) ==
    LET keys == ObjectKeys(required)
    IN  keys # << >> /\ getFormRequired(required, fs, errors)[Head(keys)].isMissing

anyMissing(required, fs, errors) ==
    anyMissingLoop(getFormRequired(required, fs, errors), ObjectKeys(required), FALSE)

\* variant: the handler is given the changed state instead of the display state
isMissingOfFormState(required, fs, errors, stateKey) ==
    IF stateKey \in DOMAIN required
    THEN CallIsRequired(required[stateKey].isRequired,
                        Get(fs.formState, stateKey),
                        getComponentError(errors, stateKey))
    ELSE FALSE

isMissing(required, fs, errors, stateKey) ==
    IF stateKey \in DOMAIN required
    THEN CallIsRequired(required[stateKey].isRequired,
                        getComponentState(fs, stateKey),
                        getComponentError(errors, stateKey))
    ELSE FALSE

\* ---------------------------- context.tsx ------------------------------
\* variant: every option that is no function falls back to the default projector
withFormContextProjectorTolerant(option) == "defaultSetInitialState"

\* withFormContext's default parameter applied to the setInitialStateCallback
\* option of connectToForm: left out (Undefined), or "false" as in the README's
\* Button
withFormContextProjector(option) ==
    IF option = Undefined THEN "defaultSetInitialState" ELSE option

\* variant: the projected value is the state only
defaultSetInitialStateOnly(initialStateKey, initialState) ==
    [initialState |-> Get(initialState, initialStateKey),
     initialMeta |-> Undefined]

defaultSetInitialState(initialStateKey, initialState) ==
    [initialState |-> Get(initialState, initialStateKey),
     initialMeta |-> Get(initialState, initialStateKey)]

\* the props of the connected component the default guard reads, as the
\* wrapper computes them for field k from the context of one render. fresh: the
\* error object at k was stored since the render before (=== compares the
\* references of error objects, and ADD always stores a new object)
ComponentPropsOf(view, k, fresh) ==
    [componentState |-> getComponentState(view.fstate, k),
     componentError |->
        {[object |-> IF fresh THEN "new" ELSE "same", error |-> e] :
            e \in getComponentError(view.formErrors, k)},
     isLoading |-> isLoading(view.loadingComponents, k),
     isMissing |-> isMissing(view.requiredComponents, view.fstate, view.formErrors, k)]

defaultShouldUpdate(oldProps, newProps) ==
    IF newProps.componentState = Undefined /\ oldProps.componentState = Undefined
    THEN FALSE
    ELSE /\ newProps.componentState = oldProps.componentState
         /\ newProps.componentError = oldProps.componentError
         /\ newProps.isLoading = oldProps.isLoading
         /\ newProps.isMissing = oldProps.isMissing

\* the shouldUpdate option of connectToForm: left out (Undefined), "false" (no
\* function), or a guard written to the ShouldUpdate interface: true when
\* componentState has new data
StateDiffers == "(oldProps, newProps) => oldProps.componentState !== newProps.componentState"
shouldUpdateOption(field) ==
    IF "shouldUpdate" \in DOMAIN field THEN field.shouldUpdate ELSE Undefined

\* withFormContext's default parameter applied to the shouldUpdate option
withFormContextGuard(option) ==
    IF option = Undefined THEN "defaultShouldUpdate" ELSE option

\* shouldUpdate(oldProps, newProps) for the guards that are functions
CallShouldUpdate(guard, oldProps, newProps) ==
    CASE guard = "defaultShouldUpdate" -> defaultShouldUpdate(oldProps, newProps)
      [] guard = StateDiffers -> oldProps.componentState # newProps.componentState

\* the comparison function memoize hands to React.memo
memoize(shouldUpdate, oldProps, newProps) ==
    IF shouldUpdate \in {"defaultShouldUpdate", StateDiffers}
    THEN CallShouldUpdate(shouldUpdate, oldProps, newProps)
    ELSE TRUE

\* React.memo renders the component again unless the comparison returns true
memoRenders(field, oldProps, newProps) ==
    ~memoize(withFormContextGuard(shouldUpdateOption(field)), oldProps, newProps)

\* wrapComponent's guard around formContext.setInitialState
seedingEnabled(stateKey, field) ==
    /\ withFormContextProjector(field.setInitialStateCallback) = "defaultSetInitialState"
    /\ Truthy(field.initialStateKey)
    /\ Truthy(stateKey)

\* ------------------------------ state ----------------------------------
VARIABLES
    props,              \* the props given to Form: initialState, loading, onButtonClick
    fields,             \* per field: its props, connectToForm options and component
    fstate,             \* useFormState's reducer state
    formErrors,         \* useFormError's reducer state
    loadingComponents,  \* useFormLoading's reducer state
    requiredComponents, \* useFormRequired's reducer state
    mounting,           \* useFormMounting's state
    rendered,           \* the five states as of the last render (what closures read)
    dirty,              \* a dispatch is queued: React will render again
    pending,            \* the effects the last render queued, in commit order
    alive,              \* FALSE once a render has thrown: React unmounts the form
    seeded,             \* the fields whose seeding callback has run
    edited,             \* the keys a dispatching setFormState has written
    removed,            \* the keys removeFormState has been called for
    committed,          \* a setFormState dispatch or a removeFormState has happened
    lastEdit,           \* <<k, v>> while the last write was setFormState(k, v, _)
                        \* with a state it dispatched, << >> otherwise
    clicked,            \* << >>, or <<c>> when this step was onButtonClick: c.sunk
                        \* holds the FormEvents handed to props.onButtonClick
    lastOp,             \* the operation of the last step
    componentRendered   \* the fields whose connected component the last render
                        \* has rendered (React.memo did not skip it)

stores == <<fstate, formErrors, loadingComponents, requiredComponents, mounting>>
config == <<props, fields>>
vars == <<props, fields, fstate, formErrors, loadingComponents, requiredComponents,
          mounting, rendered, dirty, pending, alive, seeded, edited, removed,
          committed, lastEdit, clicked, lastOp, componentRendered>>

\* Form.defaultProps
defaultProps == [initialState |-> << >>, loading |-> FALSE]

\* the props Form receives: React fills in defaultProps for the props left out
withDefaultProps(given) == given @@ defaultProps

\* the props Form renders with
FormProps == withDefaultProps(props)

\* what one render of Form closes over
Snapshot(fs, errors, loading, required, mnt) ==
    [fstate |-> fs, formErrors |-> errors, loadingComponents |-> loading,
     requiredComponents |-> required, mounting |-> mnt]

\* the stores as they are now
Current == Snapshot(fstate, formErrors, loadingComponents, requiredComponents, mounting)

\* ------------------------------ form.tsx -------------------------------
\* variant: only the loading components count
FormLoadingFlagOfComponents(view, p) == formLoading(view.loadingComponents)

\* const loading = formLoading.formLoading() || props.loading
FormLoadingFlag(view, p) == formLoading(view.loadingComponents) \/ p.loading

\* default parameter buttonID = 'submit'
ButtonIDs == {Undefined, "save"}
buttonIDOrDefault(id) == IF id = Undefined THEN "submit" ELSE id

\* building the FormEvent calls getFormRequired(): a TypeError ends the handler
onButtonClickThrows(view) == getFormRequiredThrows(view.requiredComponents)

\* variant: the required messages are computed from the stores as they are now,
\* the rest of the event from the closures of the render
FormEventAcrossRenders(view, p, buttonID) ==
    [id |-> buttonIDOrDefault(buttonID),
     type |-> "buttonClick",
     state |-> [formState |-> view.fstate.formState,
                displayState |-> view.fstate.displayState,
                formMeta |-> view.fstate.formMeta,
                displayMeta |-> view.fstate.displayMeta,
                stateChanged |-> view.fstate.stateChanged,
                formLoading |-> FormLoadingFlag(view, p),
                formMounting |-> view.mounting,
                initialState |-> p.initialState],
     errors |-> [formErrors |-> view.formErrors],
     buttonData |-> << >>,
     formRequired |->
        [required |-> getFormRequired(Current.requiredComponents, Current.fstate,
                                      Current.formErrors),
         anyMissing |-> anyMissing(Current.requiredComponents, Current.fstate,
                                   Current.formErrors)]]

\* the FormEvent object onButtonClick builds from the closures of one render
FormEvent(view, p, buttonID) ==
    [id |-> buttonIDOrDefault(buttonID),
     type |-> "buttonClick",
     state |-> [formState |-> view.fstate.formState,
                displayState |-> view.fstate.displayState,
                formMeta |-> view.fstate.formMeta,
                displayMeta |-> view.fstate.displayMeta,
                stateChanged |-> view.fstate.stateChanged,
                formLoading |-> FormLoadingFlag(view, p),
                formMounting |-> view.mounting,
                initialState |-> p.initialState],
     errors |-> [formErrors |-> view.formErrors],
     buttonData |-> << >>,
     formRequired |->
        [required |-> getFormRequired(view.requiredComponents, view.fstate,
                                      view.formErrors),
         anyMissing |-> anyMissing(view.requiredComponents, view.fstate,
                                   view.formErrors)]]

\* variant: a form with missing fields keeps the click to itself
onButtonClickUnlessMissing(view, p, buttonID) ==
    IF /\ p.hasSink
       /\ ~onButtonClickThrows(view)
       /\ ~anyMissing(view.requiredComponents, view.fstate, view.formErrors)
    THEN <<FormEvent(view, p, buttonID)>>
    ELSE << >>

\* props.onButtonClick && props.onButtonClick(event): the events the sink receives
onButtonClick(view, p, buttonID) ==
    IF p.hasSink /\ ~onButtonClickThrows(view)
    THEN <<FormEvent(view, p, buttonID)>>
    ELSE << >>

\* rendering a field evaluates formContext.isMissing(props.stateKey): a handler
\* whose isRequired is no function makes the render throw
renderThrows(view) == \E k \in Keys : RequiredThrows(view.requiredComponents, k)

\* ------------------------------ effects --------------------------------
\* every effect of the tree in commit order: children before parents, so per
\* field the connected component's setRequired effect, then the wrapper's
\* setInitialState effect, and the Form's mounting effect last
RECURSIVE FieldEffects(_)
FieldEffects(keys) ==
    IF keys = << >> THEN << >>
    ELSE <<[kind |-> "required", key |-> Head(keys)],
           [kind |-> "seed", key |-> Head(keys)]>> \o FieldEffects(Tail(keys))
\* variant: the Form declares no effect of its own
AllEffectsOfFields == FieldEffects(KeyOrder)

AllEffects == FieldEffects(KeyOrder) \o <<[kind |-> "mount", key |-> "form"]>>

\* the effects of the first render: every effect the fields declare
MountEffects(f) ==
    SelectSeq(AllEffects,
              LAMBDA e : CASE e.kind = "required" -> f[e.key].required # << >>
                           [] e.kind = "seed" -> seedingEnabled(e.key, f[e.key])
                           [] OTHER -> TRUE)

\* the handler field k passes to props.setRequired in a render: the handler of
\* its configuration while props.formMounting is true, another predicate and
\* another message in the renders after that
handlerPassed(f, k, view) ==
    IF view.mounting
    THEN f[k].required[1]
    ELSE [isRequired |-> HasError, displayMessage |-> <<"changed">>]

\* the dependency list of useFormMounting's effect: ['form']
mountingDeps == <<"form">>

\* variant: the effects are declared without a dependency list
UpdateEffectsEveryRender(f, old, new) ==
    SelectSeq(AllEffects,
              LAMBDA e : e.kind = "seed" /\ seedingEnabled(e.key, f[e.key]))

\* the effects of a later render: those whose dependency list differs from the
\* one of the render before (old and new are the two renders' closures)
UpdateEffects(f, old, new) ==
    SelectSeq(AllEffects,
              LAMBDA e :
                  CASE e.kind = "seed" ->
                          /\ seedingEnabled(e.key, f[e.key])
                          /\ seedDeps(old.fstate, e.key) # seedDeps(new.fstate, e.key)
                    [] e.kind = "required" ->
                          /\ f[e.key].required # << >>
                          /\ requiredDeps(e.key, handlerPassed(f, e.key, old))
                                # requiredDeps(e.key, handlerPassed(f, e.key, new))
                    [] OTHER -> mountingDeps # mountingDeps)

\* ------------------------------ Init -----------------------------------
\* A form is the props given to Form (hasSink: onButtonClick is given) and, per
\* field: the initialStateKey prop, the setInitialStateCallback option of
\* connectToForm, the handler the component passes to setRequired (<< >>: it
\* does not call setRequired), and the binding operations the component calls
\* from its event handlers.

\* edit mode; two inputs seeded from the same initialStateKey, the second one
\* loads
EditForm ==
    [props |-> [initialState |-> [email |-> "v0"], loading |-> FALSE, hasSink |-> TRUE],
     fields |->
        [k \in Keys |->
            [initialStateKey |-> "email", setInitialStateCallback |-> Undefined,
             required |-> << >>,
             calls |-> IF k = "b" THEN {"state", "loading"} ELSE {"state"}]]]

\* a Form given no props but its children: two inputs, the first one with an
\* initialStateKey and the option shouldUpdate: false, the second one with a
\* guard of its own
PlainForm ==
    [props |-> [hasSink |-> FALSE],
     fields |->
        [k \in Keys |->
            [initialStateKey |-> IF k = "a" THEN "email" ELSE Undefined,
             setInitialStateCallback |-> Undefined,
             shouldUpdate |-> IF k = "a" THEN "false" ELSE StateDiffers,
             required |-> << >>, calls |-> {"state"}]]]

\* create mode; two validating inputs, one required while it is in error, one
\* with a message of its own and no initialStateKey
CreateForm ==
    [props |-> [initialState |-> << >>, hasSink |-> TRUE],
     fields |->
        [k \in Keys |->
            IF k = "a"
            THEN [initialStateKey |-> "email", setInitialStateCallback |-> Undefined,
                  required |-> <<[isRequired |-> HasError]>>,
                  calls |-> {"state", "error"}]
            ELSE [initialStateKey |-> Undefined, setInitialStateCallback |-> Undefined,
                  required |-> <<[displayMessage |-> <<"need">>]>>,
                  calls |-> {"state", "error"}]]]

\* edit mode; a seeded input that loads and is required with an empty handler,
\* beside a field connected with setInitialStateCallback: false (as the
\* README's Button); the form itself is loading
ButtonForm ==
    [props |-> [initialState |-> [email |-> "v0"], loading |-> TRUE, hasSink |-> TRUE],
     fields |->
        [k \in Keys |->
            IF k = "a"
            THEN [initialStateKey |-> "email", setInitialStateCallback |-> Undefined,
                  required |-> << << >> >>, calls |-> {"state", "loading"}]
            ELSE [initialStateKey |-> "email", setInitialStateCallback |-> "false",
                  required |-> << >>, calls |-> {"loading"}]]]

\* create mode; the first field passes setRequired a handler whose isRequired
\* is undefined
InvalidForm ==
    [props |-> [initialState |-> << >>, loading |-> FALSE, hasSink |-> TRUE],
     fields |->
        [k \in Keys |->
            IF k = "a"
            THEN [initialStateKey |-> "email", setInitialStateCallback |-> Undefined,
                  required |-> <<[isRequired |-> Undefined]>>, calls |-> {"state"}]
            ELSE [initialStateKey |-> Undefined, setInitialStateCallback |-> Undefined,
                  required |-> << >>, calls |-> {"state"}]]]

Forms == {EditForm, PlainForm, CreateForm, ButtonForm, InvalidForm}

Init ==
    /\ \E form \in Forms : props = form.props /\ fields = form.fields
    /\ fstate = InitialFormState
    /\ formErrors = << >>
    /\ loadingComponents = << >>
    /\ requiredComponents = << >>
    /\ mounting = TRUE
    /\ rendered = Snapshot(InitialFormState, << >>, << >>, << >>, TRUE)
    /\ dirty = FALSE
    /\ pending = MountEffects(fields)
    /\ alive = TRUE
    /\ seeded = {}
    /\ edited = {}
    /\ removed = {}
    /\ committed = FALSE
    /\ lastEdit = << >>
    /\ clicked = << >>
    /\ lastOp = [op |-> "mount"]
    /\ componentRendered = Keys

\* ----------------------------- actions ---------------------------------
\* the operations event handlers call
WriteOps == {"setFormState", "removeFormState", "setFormError", "removeFormError",
             "enableLoading", "disableLoading"}

\* an event handler runs once React has rendered and the queued effects have
\* run (a dispatch flushes them first)
HandlerMayStart == alive /\ pending = << >> /\ ~dirty

\* a field calls props.setFormState(state, meta)
SetFormState(k, state, meta) ==
    /\ HandlerMayStart
    /\ "state" \in fields[k].calls
    /\ fstate' = setFormState(fstate, k, state, meta)
    /\ dirty' = (Truthy(state) \/ Truthy(meta))
    /\ lastEdit' = IF Truthy(state) THEN <<k, state>> ELSE << >>
    /\ edited' = IF Truthy(state) \/ Truthy(meta) THEN edited \cup {k} ELSE edited
    /\ committed' = (committed \/ Truthy(state) \/ Truthy(meta))
    /\ clicked' = << >>
    /\ lastOp' = [op |-> "setFormState", key |-> k, state |-> state, meta |-> meta]
    /\ UNCHANGED componentRendered
    /\ UNCHANGED <<config, formErrors, loadingComponents, requiredComponents, mounting,
                   rendered, pending, alive, seeded, removed>>

\* variant: removing a field's state removes the field's error with it
RemoveFormStateAndError(k) ==
    /\ HandlerMayStart
    /\ "state" \in fields[k].calls
    /\ fstate' = removeFormState(fstate, k)
    /\ formErrors' = errorReducer(formErrors, [type |-> ERROR_REMOVE, stateKey |-> k])
    /\ dirty' = TRUE
    /\ lastEdit' = << >>
    /\ clicked' = << >>
    /\ lastOp' = [op |-> "removeFormState", key |-> k]
    /\ removed' = removed \cup {k}
    /\ committed' = TRUE
    /\ UNCHANGED componentRendered
    /\ UNCHANGED <<config, loadingComponents, requiredComponents, mounting,
                   rendered, pending, alive, seeded, edited>>

\* a field calls props.removeFormState()
RemoveFormState(k) ==
    /\ HandlerMayStart
    /\ "state" \in fields[k].calls
    /\ fstate' = removeFormState(fstate, k)
    /\ dirty' = TRUE
    /\ lastEdit' = << >>
    /\ clicked' = << >>
    /\ lastOp' = [op |-> "removeFormState", key |-> k]
    /\ removed' = removed \cup {k}
    /\ committed' = TRUE
    /\ UNCHANGED componentRendered
    /\ UNCHANGED <<config, formErrors, loadingComponents, requiredComponents, mounting,
                   rendered, pending, alive, seeded, edited>>

\* a field calls props.setFormError(error)
SetFormError(k, error) ==
    /\ HandlerMayStart
    /\ "error" \in fields[k].calls
    /\ formErrors' = errorReducer(formErrors,
                                  [type |-> ERROR_ADD, stateKey |-> k, error |-> error])
    /\ dirty' = TRUE
    /\ lastEdit' = << >>
    /\ clicked' = << >>
    /\ lastOp' = [op |-> "setFormError", key |-> k, error |-> error]
    /\ UNCHANGED componentRendered
    /\ UNCHANGED <<config, fstate, loadingComponents, requiredComponents, mounting,
                   rendered, pending, alive, seeded, edited, removed, committed>>

\* a field calls props.removeFormError()
RemoveFormError(k) ==
    /\ HandlerMayStart
    /\ "error" \in fields[k].calls
    /\ formErrors' = errorReducer(formErrors, [type |-> ERROR_REMOVE, stateKey |-> k])
    /\ dirty' = TRUE
    /\ lastEdit' = << >>
    /\ clicked' = << >>
    /\ lastOp' = [op |-> "removeFormError", key |-> k]
    /\ UNCHANGED componentRendered
    /\ UNCHANGED <<config, fstate, loadingComponents, requiredComponents, mounting,
                   rendered, pending, alive, seeded, edited, removed, committed>>

\* a field calls props.enableLoading()
EnableLoading(k) ==
    /\ HandlerMayStart
    /\ "loading" \in fields[k].calls
    /\ loadingComponents' = loadingReducer(loadingComponents,
                                           [type |-> LOADING_ADD, stateKey |-> k])
    /\ dirty' = TRUE
    /\ lastEdit' = << >>
    /\ clicked' = << >>
    /\ lastOp' = [op |-> "enableLoading", key |-> k]
    /\ UNCHANGED componentRendered
    /\ UNCHANGED <<config, fstate, formErrors, requiredComponents, mounting,
                   rendered, pending, alive, seeded, edited, removed, committed>>

\* a field calls props.disableLoading()
DisableLoading(k) ==
    /\ HandlerMayStart
    /\ "loading" \in fields[k].calls
    /\ loadingComponents' = loadingReducer(loadingComponents,
                                           [type |-> LOADING_REMOVE, stateKey |-> k])
    /\ dirty' = TRUE
    /\ lastEdit' = << >>
    /\ clicked' = << >>
    /\ lastOp' = [op |-> "disableLoading", key |-> k]
    /\ UNCHANGED componentRendered
    /\ UNCHANGED <<config, fstate, formErrors, requiredComponents, mounting,
                   rendered, pending, alive, seeded, edited, removed, committed>>

\* a button calls props.onButtonClick(buttonID), either as an event handler of
\* its own or behind a write of the same handler, never while effects run. The
\* closure it calls is the one of the last render.
OnButtonClick(buttonID) ==
    /\ alive
    /\ IF dirty THEN lastOp.op \in WriteOps
                ELSE pending = << >> \/ lastOp.op \in {"render", "mount"}
    /\ clicked' = <<[id |-> buttonID,
                     threw |-> FormProps.hasSink /\ onButtonClickThrows(rendered),
                     sunk |-> onButtonClick(rendered, FormProps, buttonID)]>>
    /\ UNCHANGED componentRendered
    /\ UNCHANGED <<config, stores, rendered, dirty, pending, alive, seeded, edited,
                   removed, committed, lastEdit, lastOp>>

\* the effect of setInitialState for field k: the wrapper's callback runs the
\* projector and passes its result to the setter
RunSeedEffect ==
    /\ alive
    /\ pending # << >>
    /\ Head(pending).kind = "seed"
    /\ LET k == Head(pending).key
           state == defaultSetInitialState(fields[k].initialStateKey, FormProps.initialState)
       IN  /\ fstate' = seedSetter(fstate, k, state.initialState, state.initialMeta)
           /\ dirty' = (dirty \/ Truthy(state.initialState) \/ Truthy(state.initialMeta))
           /\ seeded' = seeded \cup {k}
           /\ lastOp' = [op |-> "seed", key |-> k]
    /\ pending' = Tail(pending)
    /\ clicked' = << >>
    /\ UNCHANGED componentRendered
    /\ UNCHANGED <<config, formErrors, loadingComponents, requiredComponents, mounting,
                   rendered, alive, edited, removed, committed, lastEdit>>

\* the effect of setRequired for field k: registers the handler of the render
\* that queued it
RunRequiredEffect ==
    /\ alive
    /\ pending # << >>
    /\ Head(pending).kind = "required"
    /\ LET k == Head(pending).key
       IN  /\ requiredComponents' =
                  requiredReducer(requiredComponents,
                                  [type |-> REQUIRED_ADD, stateKey |-> k,
                                   required |-> handlerPassed(fields, k, rendered)])
           /\ lastOp' = [op |-> "setRequired", key |-> k]
    /\ dirty' = TRUE
    /\ pending' = Tail(pending)
    /\ clicked' = << >>
    /\ UNCHANGED componentRendered
    /\ UNCHANGED <<config, fstate, formErrors, loadingComponents, mounting,
                   rendered, alive, seeded, edited, removed, committed, lastEdit>>

\* the effect of useFormMounting: toggleMounting(false)
RunMountEffect ==
    /\ alive
    /\ pending # << >>
    /\ Head(pending).kind = "mount"
    /\ mounting' = FALSE
    /\ dirty' = TRUE
    /\ pending' = Tail(pending)
    /\ clicked' = << >>
    /\ lastOp' = [op |-> "toggleMounting"]
    /\ UNCHANGED componentRendered
    /\ UNCHANGED <<config, fstate, formErrors, loadingComponents, requiredComponents,
                   rendered, alive, seeded, edited, removed, committed, lastEdit>>

\* React renders the Form and its fields with the store's state and queues the
\* effects whose dependencies differ from those of the render before
Render ==
    /\ alive
    /\ dirty
    /\ pending = << >>
    /\ IF renderThrows(Current)
       THEN /\ alive' = FALSE
            /\ lastOp' = [op |-> "renderThrew"]
            /\ UNCHANGED <<rendered, pending, dirty, componentRendered>>
       ELSE /\ rendered' = Current
            /\ pending' = UpdateEffects(fields, rendered, Current)
            /\ componentRendered' =
                  {k \in Keys :
                      memoRenders(fields[k],
                                  ComponentPropsOf(rendered, k, FALSE),
                                  ComponentPropsOf(Current, k,
                                      lastOp.op = "setFormError" /\ lastOp.key = k))}
            /\ dirty' = FALSE
            /\ lastOp' = [op |-> "render"]
            /\ UNCHANGED alive
    /\ clicked' = << >>
    /\ UNCHANGED <<config, stores, seeded, edited, removed, committed, lastEdit>>

Next ==
    \/ \E k \in Keys, state \in StateInputs, meta \in MetaInputs : SetFormState(k, state, meta)
    \/ \E k \in Keys : RemoveFormState(k)
    \/ \E k \in Keys, error \in ErrorInputs : SetFormError(k, error)
    \/ \E k \in Keys : RemoveFormError(k)
    \/ \E k \in Keys : EnableLoading(k)
    \/ \E k \in Keys : DisableLoading(k)
    \/ \E id \in ButtonIDs : OnButtonClick(id)
    \/ RunSeedEffect
    \/ RunRequiredEffect
    \/ RunMountEffect
    \/ Render

Spec == Init /\ [][Next]_vars

\* React runs the effects a commit has queued: none stays queued forever
LiveSpec ==
    /\ Spec
    /\ WF_vars(RunSeedEffect)
    /\ WF_vars(RunRequiredEffect)
    /\ WF_vars(RunMountEffect)

\* React also renders again after a dispatch: no state stays unrendered forever
RenderSpec == LiveSpec /\ WF_vars(Render)

\* ------------------------------ claims ---------------------------------
\* every effect of the last write has run and React has rendered
Quiescent == alive /\ ~dirty /\ pending = << >>

\* the step just taken is the operation lastOp names (onButtonClick leaves lastOp)
Did(op) == clicked' = << >> /\ lastOp'.op = op
\* the state is the one the operation lastOp names has left (a click changes no store)
After(op) == lastOp.op = op

\* the value the default projector seeds field k with
SeedValue(k) == Get(FormProps.initialState, fields[k].initialStateKey)

\* C1: every StateKey present in FormState is present in DisplayState with the
\* same value, in every reachable state.
C1_FormStateWithinDisplayState ==
    \A k \in DOMAIN fstate.formState :
        /\ k \in DOMAIN fstate.displayState
        /\ fstate.displayState[k] = fstate.formState[k]

\* C2: edit-mode divergence. A field seeded from a non-empty initial value and
\* never edited (no setFormState and no removeFormState of its key) shows the
\* initial value and is absent from FormState; once it is edited with
\* setFormState(key, v), FormState[key] and DisplayState[key] are v, and stay
\* v while the effects of that edit run and after them.
C2_EditModeDivergence ==
    \A k \in Keys :
        (k \in seeded /\ Truthy(SeedValue(k))) =>
            /\ (k \notin edited /\ k \notin removed) =>
                  /\ Get(fstate.displayState, k) = SeedValue(k)
                  /\ k \notin DOMAIN fstate.formState
            /\ \A v \in StateInputs :
                  lastEdit = <<k, v>> =>
                      /\ Get(fstate.formState, k) = v
                      /\ Get(fstate.displayState, k) = v

\* C3: while a field stays mounted with the same (stateKey, initialStateKey),
\* its seeding callback runs at most once.
C3_SeedsAtMostOnce ==
    [][\A k \in Keys : (Did("seed") /\ lastOp'.key = k) => k \notin seeded]_vars

\* C4: once a committed write (a dispatching setFormState, or removeFormState)
\* has been applied, stateChanged is true in every later state.
C4_StateChangedStays == committed => fstate.stateChanged

\* C5: FormState and FormMeta hold only keys the user has changed: a key no
\* setFormState has written is in neither.
C5_OnlyEditedKeys ==
    \A k \in Keys :
        k \notin edited => k \notin DOMAIN fstate.formState /\ k \notin DOMAIN fstate.formMeta

\* C6: removal completeness. removeFormState(key) leaves key in neither
\* FormState nor DisplayState, and every other key with the presence and the
\* value it had in FormState and in DisplayState.
C6_RemovalCompleteness ==
    [][\A k \in Keys :
          (Did("removeFormState") /\ lastOp'.key = k) =>
              /\ k \notin DOMAIN fstate'.formState
              /\ k \notin DOMAIN fstate'.displayState
              /\ \A j \in Keys \ {k} :
                    /\ (j \in DOMAIN fstate'.formState) = (j \in DOMAIN fstate.formState)
                    /\ Get(fstate'.formState, j) = Get(fstate.formState, j)
                    /\ (j \in DOMAIN fstate'.displayState) = (j \in DOMAIN fstate.displayState)
                    /\ Get(fstate'.displayState, j) = Get(fstate.displayState, j)]_vars

\* C7: for every provided state (anything but undefined, the falsy "" too),
\* setFormState(key, state) leaves FormState[key] = DisplayState[key] = state
\* and stateChanged = true.
C7_SetFormStateWritesProvided ==
    (After("setFormState") /\ lastOp.state # Undefined) =>
        /\ Get(fstate.formState, lastOp.key) = lastOp.state
        /\ Get(fstate.displayState, lastOp.key) = lastOp.state
        /\ fstate.stateChanged

\* the events of the click just made, when it was made with no write pending
\* and reached the sink
SunkEvents ==
    IF clicked # << >> /\ ~dirty /\ FormProps.hasSink /\ ~clicked[1].threw
    THEN {clicked[1].sunk} ELSE {}

\* the event carries the stores' current values
SnapshotEqualsStores ==
    \A sunk \in SunkEvents :
        /\ Len(sunk) = 1
        /\ sunk[1].state.formState = fstate.formState
        /\ sunk[1].state.displayState = fstate.displayState
        /\ sunk[1].state.formMeta = fstate.formMeta
        /\ sunk[1].state.displayMeta = fstate.displayMeta
        /\ sunk[1].state.stateChanged = fstate.stateChanged
        /\ sunk[1].errors.formErrors = formErrors
        /\ sunk[1].state.formMounting = mounting
        /\ sunk[1].state.initialState = FormProps.initialState

\* the state of the example: {a: "x"} written by setFormState, no errors, no
\* required handlers, loading disabled, mounting settled
SnapshotExampleState ==
    /\ fstate.formState = [a |-> "x"]
    /\ lastEdit = <<"a", "x">>
    /\ formErrors = << >>
    /\ requiredComponents = << >>
    /\ ~FormLoadingFlag(Current, FormProps)
    /\ ~mounting

\* C8: snapshot consistency. With no write pending, the FormEvent handed to
\* props.onButtonClick carries formState, displayState, formMeta, displayMeta,
\* stateChanged, formErrors, formMounting and initialState equal to the stores'
\* current values; in the example state it has formState = {a: "x"},
\* stateChanged = true, anyMissing = false and formErrors = {}.
C8_SnapshotConsistency ==
    /\ SnapshotEqualsStores
    /\ \A sunk \in SunkEvents :
          SnapshotExampleState =>
              /\ sunk[1].state.formState = [a |-> "x"]
              /\ sunk[1].state.stateChanged = TRUE
              /\ sunk[1].formRequired.anyMissing = FALSE
              /\ sunk[1].errors.formErrors = << >>

\* the views a call of anyMissing() / isMissing() can read: the closures of the
\* last render and, once React has rendered, the stores themselves
Views == {rendered} \cup (IF dirty THEN {} ELSE {Current})

\* some registered handler returns true for its key's display state and error
SomeHandlerMissing(view) ==
    \E k \in DOMAIN view.requiredComponents :
        CallIsRequired(view.requiredComponents[k].isRequired,
                       Get(view.fstate.displayState, k),
                       getComponentError(view.formErrors, k))

\* the orders Object.values could enumerate the registered keys in
KeyOrders(view) ==
    {o \in {<< >>, <<"a">>, <<"b">>, <<"a", "b">>, <<"b", "a">>} :
        /\ {o[i] : i \in DOMAIN o} = DOMAIN view.requiredComponents
        /\ Len(o) = Cardinality(DOMAIN view.requiredComponents)}

\* C9: anyMissing() is true iff some registered handler returns true for the
\* current display state and error of its key, whatever the order the handlers
\* are visited in; once a write is rendered the call reads the new state, with
\* the handlers registered at mount.
C9_AnyMissingAggregate ==
    \A view \in Views :
        ~getFormRequiredThrows(view.requiredComponents) =>
            /\ anyMissing(view.requiredComponents, view.fstate, view.formErrors)
                  <=> SomeHandlerMissing(view)
            /\ \A o \in KeyOrders(view) :
                  anyMissingLoop(getFormRequired(view.requiredComponents, view.fstate,
                                                 view.formErrors), o, FALSE)
                      <=> SomeHandlerMissing(view)
            /\ ~dirty => view.fstate = fstate /\ view.formErrors = formErrors

\* only b's handler reports missing, after a write to a has been rendered
C9_Witness ==
    /\ Quiescent
    /\ After("render")
    /\ DOMAIN requiredComponents = {"a", "b"}
    /\ Get(fstate.displayState, "a") = "x"
    /\ ~getFormRequired(requiredComponents, fstate, formErrors)["a"].isMissing
    /\ getFormRequired(requiredComponents, fstate, formErrors)["b"].isMissing
    /\ anyMissing(rendered.requiredComponents, rendered.fstate, rendered.formErrors)

\* C10: isMissing(key) is false for a key no handler is registered for; for a
\* key registered with the empty handler {} it is the negation of the
\* truthiness of the key's current display state.
C10_RequiredDefault ==
    \A view \in Views : \A k \in Keys :
        /\ k \notin DOMAIN view.requiredComponents =>
              isMissing(view.requiredComponents, view.fstate, view.formErrors, k) = FALSE
        /\ (k \in DOMAIN view.requiredComponents /\ fields[k].required = << << >> >>) =>
              isMissing(view.requiredComponents, view.fstate, view.formErrors, k)
                  = ~Truthy(Get(view.fstate.displayState, k))

\* a is registered with {} and seeded, b is not registered: a is not missing
\* although FormState has no value for it
C10_Witness ==
    /\ Quiescent
    /\ fields["a"].required = << << >> >>
    /\ DOMAIN requiredComponents = {"a"}
    /\ Get(fstate.displayState, "a") = "v0"
    /\ "a" \notin DOMAIN fstate.formState
    /\ ~isMissing(requiredComponents, fstate, formErrors, "a")
    /\ ~isMissing(requiredComponents, fstate, formErrors, "b")

\* what the setInitialState effect of field k passes to the setter
SeedOf(k) == defaultSetInitialState(fields[k].initialStateKey, FormProps.initialState)
\* the store after the seed of field k has been applied to fs
Seeded(fs, k) == seedSetter(fs, k, SeedOf(k).initialState, SeedOf(k).initialMeta)

C12_StateMetaIndependence ==
    [][Did("setFormState") =>
          /\ lastOp'.meta = Undefined =>
                /\ fstate'.formMeta = fstate.formMeta
                /\ fstate'.displayMeta = fstate.displayMeta
          /\ lastOp'.state = Undefined =>
                /\ fstate'.formState = fstate.formState
                /\ fstate'.displayState = fstate.displayState]_vars

\* a state was written without meta over a seeded field: the seeded meta stays
C12_Witness ==
    /\ After("setFormState")
    /\ lastOp.state = "x"
    /\ lastOp.meta = Undefined
    /\ Get(fstate.displayState, lastOp.key) = "x"
    /\ Get(fstate.displayMeta, lastOp.key) = "v0"
    /\ lastOp.key \notin DOMAIN fstate.formMeta

\* C13: create mode convergence. With an empty initialState, FormState equals
\* DisplayState and FormMeta equals DisplayMeta in every reachable state.
C13_CreateModeConvergence ==
    FormProps.initialState = << >> =>
        /\ fstate.formState = fstate.displayState
        /\ fstate.formMeta = fstate.displayMeta

\* create mode after seeding, writes to both fields and a removal
C13_Witness ==
    /\ FormProps.initialState = << >>
    /\ "a" \in seeded
    /\ removed = {"a"}
    /\ edited = {"a", "b"}
    /\ fstate.formState = [b |-> "x"]
    /\ fstate.displayState = [b |-> "x"]
    /\ fstate.formMeta = [b |-> "m"]

\* the handler field k passes to setRequired names no callable isRequired
MalformedHandler(k) ==
    /\ fields[k].required # << >>
    /\ \/ "isRequired" \notin DOMAIN fields[k].required[1]
       \/ ~IsFunction(fields[k].required[1].isRequired)

\* C14: a registration whose isRequired is missing or no function is tolerated:
\* the default (state) => !state is stored for the key, and isMissing,
\* getFormRequired, anyMissing, onButtonClick and the render that calls them
\* complete without raising.
C14_MalformedRequiredTolerated ==
    /\ \A k \in DOMAIN requiredComponents :
          MalformedHandler(k) => requiredComponents[k].isRequired = NotState
    /\ \A k \in Keys : ~RequiredThrows(requiredComponents, k)
    /\ ~getFormRequiredThrows(requiredComponents)
    /\ lastOp.op # "renderThrew"
    /\ \A i \in DOMAIN clicked : ~clicked[i].threw

\* field k takes part in seeding by its props, and no write of its own has
\* replaced or removed what the mount has put in DisplayState
SeedExpected(k) ==
    /\ ~mounting
    /\ Truthy(fields[k].initialStateKey)
    /\ k \notin edited
    /\ k \notin removed

\* C15 as stated: a field connected with a missing or a non-function projector
\* is seeded by the default projector, DisplayState[key] =
\* initialState[initialStateKey], and no error is surfaced.
C15_DefaultProjectorSeeds ==
    \A k \in Keys :
        (SeedExpected(k) /\ ~IsFunction(fields[k].setInitialStateCallback)) =>
            /\ Get(fstate.displayState, k) = SeedValue(k)
            /\ (After("seed") /\ lastOp.key = k) => alive

\* C15 as the code has it: a field connected with no projector is seeded by the
\* default one; a field connected with a projector that is no function (false,
\* as the README's Button) is never seeded and has no DisplayState entry of its
\* own making; neither raises.
C15_ProjectorOption ==
    \A k \in Keys :
        /\ (SeedExpected(k) /\ fields[k].setInitialStateCallback = Undefined) =>
              Get(fstate.displayState, k) = SeedValue(k)
        /\ fields[k].setInitialStateCallback = "false" =>
              /\ k \notin seeded
              /\ k \notin edited => k \notin DOMAIN fstate.displayState
        /\ (After("seed") /\ lastOp.key = k) => alive

\* the mount has settled: a, connected with no projector, shows the initial
\* value; b, connected with false and the same initialStateKey, shows nothing
C15_Witness ==
    /\ alive
    /\ SeedExpected("a")
    /\ SeedExpected("b")
    /\ fields["a"].setInitialStateCallback = Undefined
    /\ fields["b"].setInitialStateCallback = "false"
    /\ SeedValue("b") = "v0"
    /\ Get(fstate.displayState, "a") = "v0"
    /\ "b" \notin DOMAIN fstate.displayState

\* the entries of a store that belong to the keys other than k
Others(store, k) == [j \in (DOMAIN store) \ {k} |-> store[j]]

\* the writes a field issues through its binding
BindingWrites == WriteOps \cup {"setRequired"}

\* C16: per-field isolation. A write issued through the binding of field k
\* (setFormState, removeFormState, setFormError, removeFormError,
\* enableLoading, disableLoading, setRequired) leaves the entries of every
\* other key as they were in FormState, DisplayState, FormMeta, DisplayMeta,
\* the errors, the loading components and the required handlers.
C16_PerFieldIsolation ==
    [][\A op \in BindingWrites : \A k \in Keys :
          (Did(op) /\ lastOp'.key = k) =>
              /\ Others(fstate'.formState, k) = Others(fstate.formState, k)
              /\ Others(fstate'.displayState, k) = Others(fstate.displayState, k)
              /\ Others(fstate'.formMeta, k) = Others(fstate.formMeta, k)
              /\ Others(fstate'.displayMeta, k) = Others(fstate.displayMeta, k)
              /\ Others(formErrors', k) = Others(formErrors, k)
              /\ Others(loadingComponents', k) = Others(loadingComponents, k)
              /\ Others(requiredComponents', k) = Others(requiredComponents, k)]_vars

\* C17: onButtonClick is never blocked by the form's status. Whatever the
\* state (fields missing, errors present, loading, mounting), a call hands
\* exactly one FormEvent to props.onButtonClick when that prop is given, and
\* does nothing when it is not; it never raises.
C17_ClickNeverBlocked ==
    \A i \in DOMAIN clicked :
        /\ ~clicked[i].threw
        /\ FormProps.hasSink =>
              /\ Len(clicked[i].sunk) = 1
              /\ clicked[i].sunk[1].type = "buttonClick"
              /\ clicked[i].sunk[1].id = buttonIDOrDefault(clicked[i].id)
        /\ ~FormProps.hasSink => clicked[i].sunk = << >>

\* a click on a form with a missing field and an error: the sink has the event
C17_Witness ==
    /\ clicked # << >>
    /\ FormProps.hasSink
    /\ formErrors # << >>
    /\ anyMissing(rendered.requiredComponents, rendered.fstate, rendered.formErrors)
    /\ Len(clicked[1].sunk) = 1
    /\ clicked[1].sunk[1].formRequired.anyMissing
    /\ clicked[1].sunk[1].errors.formErrors # << >>

\* the loading prop is given to Form and true
GivenLoading == "loading" \in DOMAIN props /\ props.loading

\* C18: the form's loading flag (the formLoading of the context, and
\* state.formLoading of every FormEvent) is true iff some component is loading
\* or the loading prop is true; with the prop left out and no component
\* loading it is the boolean false.
C18_FormLoadingFlag ==
    /\ \A view \in Views :
          /\ FormLoadingFlag(view, FormProps) \in BOOLEAN
          /\ FormLoadingFlag(view, FormProps)
                <=> (DOMAIN view.loadingComponents # {} \/ GivenLoading)
          /\ ("loading" \notin DOMAIN props /\ DOMAIN view.loadingComponents = {}) =>
                FormLoadingFlag(view, FormProps) = FALSE
    /\ \A i \in DOMAIN clicked : \A j \in DOMAIN clicked[i].sunk :
          /\ clicked[i].sunk[j].state.formLoading \in BOOLEAN
          /\ clicked[i].sunk[j].state.formLoading
                <=> (DOMAIN rendered.loadingComponents # {} \/ GivenLoading)

\* a click while a component loads and the loading prop is false: the event
\* says the form is loading
C18_Witness ==
    /\ Quiescent
    /\ ~GivenLoading
    /\ DOMAIN loadingComponents = {"b"}
    /\ clicked # << >>
    /\ Len(clicked[1].sunk) = 1
    /\ clicked[1].sunk[1].state.formLoading

\* C19: the mounting gate is true in the initial state, becomes false once the
\* effects of the first render have run, and no write, seed, render or click
\* makes it true again.
C19_MountingGate ==
    /\ [](After("mount") => mounting)
    /\ [][mounting' => mounting]_vars
    /\ <>[](~mounting)

\* the gate is down, and still down after a seed, an edit, a removal and the
\* renders that followed
C19_Witness ==
    /\ ~mounting
    /\ ~rendered.mounting
    /\ After("render")
    /\ seeded # {}
    /\ edited # {}
    /\ removed # {}

\* C20: right after removeFormState(key), stateChanged is true, whether or not
\* any of the state and meta mappings held the key.
C20_RemovalSetsStateChanged ==
    After("removeFormState") => fstate.stateChanged

\* the first write of the form is the removal of a key that was never seeded
\* nor written: the mappings are as empty as before, stateChanged is true
C20_Witness ==
    /\ After("removeFormState")
    /\ lastOp.key \notin seeded
    /\ edited = {}
    /\ removed = {lastOp.key}
    /\ fstate.displayState = << >>
    /\ fstate.displayMeta = << >>
    /\ fstate.formState = << >>
    /\ fstate.formMeta = << >>
    /\ fstate.stateChanged

\* C21: after setFormError(key, error), the error stored at key is error over
\* the template { displayError: "<key> Error" }: its displayError is the
\* caller's when error has one and the template's otherwise, every other field
\* of error is kept, and nothing of an error stored at key before remains.
C21_ErrorMergedOverTemplate ==
    \A k \in Keys :
        (After("setFormError") /\ lastOp.key = k) =>
            /\ getComponentError(formErrors, k) = {formErrors[k]}
            /\ DOMAIN formErrors[k] = DOMAIN lastOp.error \cup {"displayError"}
            /\ \A f \in DOMAIN lastOp.error : formErrors[k][f] = lastOp.error[f]
            /\ "displayError" \notin DOMAIN lastOp.error =>
                  formErrors[k].displayError = <<k, "Error">>

\* setFormError({}) over a stored error with a message and a code of its own:
\* the stored error is the template alone
C21_Witness ==
    /\ After("setFormError")
    /\ lastOp.error = << >>
    /\ lastOp.key \in DOMAIN rendered.formErrors
    /\ "code" \in DOMAIN rendered.formErrors[lastOp.key]
    /\ formErrors[lastOp.key] = [displayError |-> <<lastOp.key, "Error">>]

\* C22: with the default projector, seeding a field whose initialStateKey holds
\* v in initialState stores v under the field's stateKey, not under the
\* initialStateKey, in DisplayState and in DisplayMeta; two fields with the
\* same initialStateKey both get v.
C22_SeedStoredUnderStateKey ==
    \A k \in Keys :
        (After("seed") /\ lastOp.key = k /\ Truthy(SeedValue(k))) =>
            /\ Get(fstate.displayState, k) = SeedValue(k)
            /\ Get(fstate.displayMeta, k) = SeedValue(k)
            /\ fields[k].initialStateKey \notin DOMAIN fstate.displayState
            /\ fields[k].initialStateKey \notin DOMAIN fstate.displayMeta
            /\ \A j \in seeded :
                  (fields[j].initialStateKey = fields[k].initialStateKey
                        /\ edited = {} /\ removed = {}) =>
                      /\ Get(fstate.displayState, j) = SeedValue(k)
                      /\ Get(fstate.displayMeta, j) = SeedValue(k)

\* a and b, both with initialStateKey "email", have been seeded at mount
C22_Witness ==
    /\ After("seed")
    /\ lastOp.key = "b"
    /\ seeded = {"a", "b"}
    /\ fields["a"].initialStateKey = fields["b"].initialStateKey
    /\ fstate.displayState = [a |-> "v0", b |-> "v0"]
    /\ fstate.displayMeta = [a |-> "v0", b |-> "v0"]

\* the events a click hands to the sink, also a click made behind a write of
\* the same handler
SunkEventsOfHandler ==
    IF clicked # << >> /\ FormProps.hasSink /\ ~clicked[1].threw
    THEN {clicked[1].sunk} ELSE {}

\* C23: every write made before a click is in the click's event, also a write
\* made earlier in the same handler: after setFormState(k, v) and onButtonClick
\* the event's formState[k] is v, and the event's state and errors are the
\* stores' values at the time of the click.
C23_WritesBeforeClickReflected ==
    \A sunk \in SunkEventsOfHandler :
        /\ Len(sunk) = 1
        /\ sunk[1].state.formState = fstate.formState
        /\ sunk[1].state.displayState = fstate.displayState
        /\ sunk[1].state.formMeta = fstate.formMeta
        /\ sunk[1].state.displayMeta = fstate.displayMeta
        /\ sunk[1].state.stateChanged = fstate.stateChanged
        /\ sunk[1].errors.formErrors = formErrors

\* C24: every FormEvent is consistent in itself: formRequired.required has
\* exactly the registered keys, each entry's isMissing is the key's handler
\* applied to the event's own displayState[key] and formErrors[key], and
\* anyMissing is true exactly when some entry's isMissing is.
C24_EventInternallyConsistent ==
    \A sunk \in SunkEventsOfHandler :
        LET e == sunk[1]
        IN  /\ DOMAIN e.formRequired.required = DOMAIN requiredComponents
            /\ \A k \in DOMAIN e.formRequired.required :
                  e.formRequired.required[k].isMissing =
                      CallIsRequired(requiredComponents[k].isRequired,
                                     Get(e.state.displayState, k),
                                     getComponentError(e.errors.formErrors, k))
            /\ e.formRequired.anyMissing =
                  (\E k \in DOMAIN e.formRequired.required :
                        e.formRequired.required[k].isMissing)

\* a click behind a write of the same handler: the event is older than the
\* stores, has both registered keys and reports one of them missing
C24_Witness ==
    /\ SunkEventsOfHandler # {}
    /\ dirty
    /\ clicked[1].sunk[1].state.displayState # fstate.displayState
    /\ DOMAIN clicked[1].sunk[1].formRequired.required = {"a", "b"}
    /\ clicked[1].sunk[1].formRequired.required["b"].isMissing
    /\ ~clicked[1].sunk[1].formRequired.required["a"].isMissing
    /\ clicked[1].sunk[1].formRequired.anyMissing

\* C25: isLoading(key) is true exactly when the most recent loading operation
\* on key was enableLoading: no key is busy at mount, enableLoading(key) makes
\* key busy and changes nothing when it was, disableLoading(key) makes key idle
\* and changes nothing when it was, the other keys keep their entries, and no
\* other step touches the busy set.
C25_LoadingFollowsLastOperation ==
    /\ [](After("mount") => \A k \in Keys : ~isLoading(loadingComponents, k))
    /\ [][/\ \A k \in Keys :
                (Did("enableLoading") /\ lastOp'.key = k) =>
                    /\ isLoading(loadingComponents', k)
                    /\ Others(loadingComponents', k) = Others(loadingComponents, k)
                    /\ isLoading(loadingComponents, k) =>
                          loadingComponents' = loadingComponents
          /\ \A k \in Keys :
                (Did("disableLoading") /\ lastOp'.key = k) =>
                    /\ ~isLoading(loadingComponents', k)
                    /\ Others(loadingComponents', k) = Others(loadingComponents, k)
                    /\ ~isLoading(loadingComponents, k) =>
                          loadingComponents' = loadingComponents
          /\ ~(Did("enableLoading") \/ Did("disableLoading")) =>
                loadingComponents' = loadingComponents]_vars

\* disableLoading on a busy key while the other key stays busy
C25_Witness ==
    /\ After("disableLoading")
    /\ isLoading(rendered.loadingComponents, lastOp.key)
    /\ ~isLoading(loadingComponents, lastOp.key)
    /\ \E j \in Keys \ {lastOp.key} : isLoading(loadingComponents, j)

\* C26: removeFormError(key) deletes the entry of key when there is one and
\* leaves the error mapping as it was when there is none; the entries of the
\* other keys stay as they were.
C26_RemoveErrorExactlyKey ==
    [][\A k \in Keys :
          (Did("removeFormError") /\ lastOp'.key = k) =>
              /\ k \notin DOMAIN formErrors'
              /\ Others(formErrors', k) = Others(formErrors, k)
              /\ k \notin DOMAIN formErrors => formErrors' = formErrors]_vars

\* the error of one key removed while the other key keeps its error
C26_Witness ==
    /\ After("removeFormError")
    /\ lastOp.key \in DOMAIN rendered.formErrors
    /\ lastOp.key \notin DOMAIN formErrors
    /\ \E j \in Keys \ {lastOp.key} : j \in DOMAIN formErrors

\* no step removes or alters a registered handler
HandlerPersists ==
    [][\A k \in DOMAIN requiredComponents :
          /\ k \in DOMAIN requiredComponents'
          /\ requiredComponents'[k] = requiredComponents[k]]_vars

\* every registered key has its entry in getFormRequired(), for the closures of
\* the last render and for the stores, whenever the call returns
RegisteredKeysReported ==
    \A view \in Views :
        ~getFormRequiredThrows(view.requiredComponents) =>
            DOMAIN getFormRequired(view.requiredComponents, view.fstate,
                                   view.formErrors) = DOMAIN view.requiredComponents

\* key k is registered with the default isRequired
DefaultHandler(k) ==
    k \in DOMAIN requiredComponents /\ requiredComponents[k].isRequired = NotState

\* removeFormState(k) leaves a key with the default handler missing
MissingRightAfterRemoval ==
    \A k \in Keys :
        (After("removeFormState") /\ lastOp.key = k /\ DefaultHandler(k)) =>
            isMissing(requiredComponents, fstate, formErrors, k)

\* a removed key with the default handler stays missing until setFormState
\* writes it again
MissingUntilWritten ==
    [][\A k \in removed :
          (/\ DefaultHandler(k)
           /\ isMissing(requiredComponents, fstate, formErrors, k)
           /\ ~(Did("setFormState") /\ lastOp'.key = k)) =>
              isMissing(requiredComponents', fstate', formErrors', k)]_vars

\* C27: a registered required handler persists: no operation removes or alters
\* it, a registered key has its entry in getFormRequired() in every later
\* state, and after removeFormState(key) a key registered with the default
\* handler is reported missing (until it is written again).
C27_RegisteredHandlerPersists ==
    /\ HandlerPersists
    /\ []RegisteredKeysReported
    /\ []MissingRightAfterRemoval
    /\ MissingUntilWritten

\* the parts of C27 that do not depend on the state after the removal
C27_PersistsAndMissingAtRemoval ==
    HandlerPersists /\ []RegisteredKeysReported /\ []MissingRightAfterRemoval

\* the entry the first registration of field k stores
FirstRegistered(k) ==
    ReduceRequiredAdd(<< >>, [type |-> REQUIRED_ADD, stateKey |-> k,
                              required |-> fields[k].required[1]])[k]

\* C28: required registration takes effect once per field: while the field
\* stays mounted with its stateKey, the setRequired calls of later renders, with
\* the same or with another handler, dispatch nothing, and the stored handler
\* (predicate and displayMessage) stays as first registered.
C28_RegisteredOncePerField ==
    /\ [][\A k \in Keys :
             (Did("setRequired") /\ lastOp'.key = k) =>
                 k \notin DOMAIN requiredComponents]_vars
    /\ [](\A k \in DOMAIN requiredComponents :
             requiredComponents[k] = FirstRegistered(k))

\* a later render has passed another handler for a, and a's entry is the first one
C28_Witness ==
    /\ Quiescent
    /\ After("render")
    /\ "a" \in edited
    /\ ~rendered.mounting
    /\ "a" \in DOMAIN requiredComponents
    /\ handlerPassed(fields, "a", rendered) # fields["a"].required[1]
    /\ requiredComponents["a"] = FirstRegistered("a")
    /\ requiredComponents["a"].displayMessage # handlerPassed(fields, "a", rendered).displayMessage

\* C29: the chain of renders and seed effects that a write (setFormState or
\* removeFormState) starts, like the one the first render starts, ends after
\* finitely many steps in a state with nothing left to render and no effect
\* queued: no seed effect keeps re-triggering itself or another field's.
C29_SeedChainTerminates ==
    (After("mount") \/ After("setFormState") \/ After("removeFormState"))
        ~> (Quiescent \/ ~alive)

\* the removal of a has re-run the seed effect of b, and the form is at rest
C29_Witness ==
    /\ Quiescent
    /\ After("render")
    /\ seeded = {"a", "b"}
    /\ "a" \in removed
    /\ "b" \in edited
    /\ fstate.formState = [b |-> "v0"]
    /\ Get(fstate.displayState, "b") = "v0"

\* the steps that belong to the error, loading and required stores and to
\* onButtonClick
OtherStoreStep ==
    \/ Did("setFormError") \/ Did("removeFormError")
    \/ Did("enableLoading") \/ Did("disableLoading")
    \/ Did("setRequired")
    \/ clicked' # << >>

\* the steps that belong to the state store
StateStoreStep ==
    Did("setFormState") \/ Did("removeFormState") \/ Did("seed")

\* C30: the stores are independent. setFormError, removeFormError,
\* enableLoading, disableLoading, setRequired and onButtonClick leave FormState,
\* DisplayState, FormMeta, DisplayMeta and stateChanged as they were;
\* setFormState, removeFormState and seeding leave the error mapping, the busy
\* set and the required registry as they were.
C30_StoresIndependent ==
    [][/\ OtherStoreStep => fstate' = fstate
       /\ StateStoreStep => /\ formErrors' = formErrors
                            /\ loadingComponents' = loadingComponents
                            /\ requiredComponents' = requiredComponents]_vars

\* the state of a field with an error and a required handler has been removed
C30_Witness ==
    /\ After("removeFormState")
    /\ lastOp.key \in DOMAIN rendered.fstate.displayState
    /\ lastOp.key \notin DOMAIN fstate.displayState
    /\ lastOp.key \in DOMAIN formErrors
    /\ lastOp.key \in DOMAIN requiredComponents

\* one of the four props differs between the old and the new props
PropsDiffer(oldProps, newProps) ==
    \/ newProps.componentState # oldProps.componentState
    \/ newProps.componentError # oldProps.componentError
    \/ newProps.isLoading # oldProps.isLoading
    \/ newProps.isMissing # oldProps.isMissing

\* the old props of field k in a render step
OldProps(k) == ComponentPropsOf(rendered, k, FALSE)

\* the new props of field k in a render step
NewProps(k) ==
    ComponentPropsOf(rendered', k, lastOp.op = "setFormError" /\ lastOp.key = k)

\* field k is connected with the default guard
DefaultGuard(k) ==
    withFormContextGuard(shouldUpdateOption(fields[k])) = "defaultShouldUpdate"

\* C31: the update guard returns true exactly when the component has new data:
\* in every render the default guard returns true when componentState,
\* componentError, isLoading or isMissing differ between the old and the new
\* props and false when none does, and the field's component is rendered again
\* in exactly those cases.
C31_GuardTrueOnNewData ==
    [][Did("render") =>
          \A k \in Keys :
              DefaultGuard(k) =>
                  /\ defaultShouldUpdate(OldProps(k), NewProps(k))
                        = PropsDiffer(OldProps(k), NewProps(k))
                  /\ (k \in componentRendered')
                        = PropsDiffer(OldProps(k), NewProps(k))]_vars

\* what the default guard does: it returns true only for props that do not
\* differ, and the component is rendered again when the props differ or
\* componentState is undefined in both
DefaultGuardIsEqualityTest ==
    [][Did("render") =>
          \A k \in Keys :
              DefaultGuard(k) =>
                  /\ defaultShouldUpdate(OldProps(k), NewProps(k))
                        = (/\ ~PropsDiffer(OldProps(k), NewProps(k))
                           /\ NewProps(k).componentState # Undefined)
                  /\ (k \in componentRendered')
                        = (\/ PropsDiffer(OldProps(k), NewProps(k))
                           \/ NewProps(k).componentState = Undefined)]_vars

\* a guard written to the ShouldUpdate interface renders the component again
\* exactly when componentState has no new data
InterfaceGuardInverted ==
    [][Did("render") =>
          \A k \in Keys :
              shouldUpdateOption(fields[k]) = StateDiffers =>
                  (k \in componentRendered')
                      = (OldProps(k).componentState = NewProps(k).componentState)]_vars

====
